---- MODULE Spec2Model ----
(***************************************************************************)
(* Model of simple-tagged-error (src/index.ts).                            *)
(*                                                                         *)
(* TaggedError(tag) returns a fresh class extending Error.  Its            *)
(* constructor runs, in this order: super(tag); the class-field            *)
(* initializer _tag = tag; Object.setPrototypeOf(this,                     *)
(* new.target.prototype); Object.assign(this, props) when props is given;  *)
(* this.name = tag.                                                        *)
(*                                                                         *)
(* The heap is two allocation-ordered tables: the classes (each the class  *)
(* returned by a TaggedError call, or a subclass declared from a class)    *)
(* and the instances.  An object is a prototype link plus its own          *)
(* properties, each a descriptor (value, writable, enumerable).            *)
(***************************************************************************)
EXTENDS Naturals, Sequences, FiniteSets

\* ------------------------------------------------------------- bounds
\* Objects allocated in one run: classes and instances together.
MaxHeap == 3

\* ------------------------------------------------------------- inputs
\* Tags are strings (Tag extends string); the empty string is a string.
Tags == {"", "A", "B"}

\* Field names a property map may carry: the reserved names and a free one.
PropKeys == {"_tag", "name", "message", "stack", "code"}

\* The value a property map holds for each field: all distinct, none a tag.
PropValue ==
  [_tag |-> "p_tag", name |-> "p_name", message |-> "p_message",
   stack |-> "p_stack", code |-> "p_code"]

\* The fields of the property maps tried: none, each one alone, all together.
KeySets == {{}} \cup {{k} : k \in PropKeys} \cup {PropKeys}

\* The property maps: the own enumerable fields of the props argument.
PropMaps == {[k \in S |-> PropValue[k]] : S \in KeySets}

\* Values user code assigns to _tag after construction.
AssignValues == {"v"}

\* The props argument: absent (undefined) or an object.
PropsArgs ==
  {[given |-> FALSE, map |-> <<>>]} \cup {[given |-> TRUE, map |-> m] : m \in PropMaps}

\* ------------------------------------------------------------- objects
\* The prototype link of an object: a class index, or ErrorProto for
\* Error.prototype itself.
ErrorProto == 0

\* What reading a property that is found nowhere yields.
Undefined == "undefined"

\* The trace the base Error constructor captures (opaque).
Trace == "trace"

\* Error.prototype.name and Error.prototype.message.
ErrorPrototypeFields == [name |-> "Error", message |-> ""]

VARIABLES classes, instances, result

vars == <<classes, instances, result>>

ClassIds == 1..Len(classes)

InstanceIds == 1..Len(instances)

\* The tag the constructor of class c closes over: a subclass runs the
\* constructor of the class it extends.
RECURSIVE TagOf(_)
TagOf(c) ==
  IF classes[c].parent = ErrorProto THEN classes[c].tag ELSE TagOf(classes[c].parent)

\* The prototype chain from the prototype of class c (ErrorProto: from
\* Error.prototype), as the set of class indices on it.
RECURSIVE Chain(_)
Chain(p) ==
  IF p = ErrorProto THEN {} ELSE {p} \cup Chain(classes[p].parent)

\* obj instanceof (class c)
InstanceOf(obj, c) == c \in Chain(obj.proto)

\* Whether the chain from prototype p reaches Error.prototype.
RECURSIVE ReachesError(_)
ReachesError(p) ==
  \/ p = ErrorProto
  \/ p \in ClassIds /\ ReachesError(classes[p].parent)

\* obj instanceof Error
IsError(obj) == ReachesError(obj.proto)

OwnKeys(obj) == DOMAIN obj.own

\* obj[k]: the own property, else the one inherited from Error.prototype.
Get(obj, k) ==
  IF k \in OwnKeys(obj) THEN obj.own[k].value
  ELSE IF k \in DOMAIN ErrorPrototypeFields THEN ErrorPrototypeFields[k]
  ELSE Undefined

\* ------------------------------------------------------------- steps
Put(own, k, d) == [x \in (DOMAIN own) \cup {k} |-> IF x = k THEN d ELSE own[x]]

Count(obj, k) == IF k = "_tag" THEN obj.tagSets + 1 ELSE obj.tagSets

\* super(tag): the base Error constructor.  message and stack become own,
\* writable, non-enumerable properties; the prototype is the one the build
\* gives (new.target.prototype natively, Error.prototype when classes are
\* compiled down to functions).
ErrorCtor(message, baseProto) ==
  [proto |-> baseProto,
   own |-> [k \in {"message", "stack"} |->
              [value |-> IF k = "message" THEN message ELSE Trace,
               writable |-> TRUE, enumerable |-> FALSE]],
   tagSets |-> 0,
   abrupt |-> FALSE]

\* mutant: the field is defined read-only
DefineFieldReadOnly(obj, k, v) ==
  [obj EXCEPT !.own = Put(obj.own, k, [value |-> v, writable |-> FALSE, enumerable |-> TRUE]),
              !.tagSets = Count(obj, k)]

\* The class-field initializer `_tag = tag`: an own, writable, enumerable
\* data property.
DefineField(obj, k, v) ==
  [obj EXCEPT !.own = Put(obj.own, k, [value |-> v, writable |-> TRUE, enumerable |-> TRUE]),
              !.tagSets = Count(obj, k)]

\* mutant: the prototype is left as the base constructor made it
SetPrototypeOfSkipped(obj, proto) == obj

\* Object.setPrototypeOf(this, new.target.prototype)
SetPrototypeOf(obj, proto) == [obj EXCEPT !.proto = proto]

\* mutant: an assignment that never replaces an existing own property
SetPropKeep(obj, k, v) ==
  IF obj.abrupt \/ k \in OwnKeys(obj) THEN obj
  ELSE [obj EXCEPT !.own = Put(obj.own, k, [value |-> v, writable |-> TRUE, enumerable |-> TRUE]),
                   !.tagSets = Count(obj, k)]

\* obj[k] = v in strict code: an own writable property takes the value, a
\* missing one is created writable and enumerable, a read-only one throws.
SetProp(obj, k, v) ==
  IF obj.abrupt THEN obj
  ELSE IF k \in OwnKeys(obj)
    THEN IF obj.own[k].writable
           THEN [obj EXCEPT !.own[k].value = v, !.tagSets = Count(obj, k)]
           ELSE [obj EXCEPT !.abrupt = TRUE]
    ELSE [obj EXCEPT !.own = Put(obj.own, k, [value |-> v, writable |-> TRUE, enumerable |-> TRUE]),
                     !.tagSets = Count(obj, k)]

\* Object.assign(obj, map): one assignment per own enumerable field of map.
RECURSIVE ObjectAssign(_, _)
ObjectAssign(obj, map) ==
  IF DOMAIN map = {} THEN obj
  ELSE LET k == CHOOSE x \in DOMAIN map : TRUE
           rest == [x \in (DOMAIN map) \ {k} |-> map[x]]
       IN ObjectAssign(SetProp(obj, k, map[k]), rest)

\* mutant: the display name is set before the properties are copied
NewInstanceNameFirst(c, props, baseProto) ==
  LET tag == TagOf(c)
      o1 == ErrorCtor(tag, baseProto)
      o2 == DefineField(o1, "_tag", tag)
      o3 == SetPrototypeOf(o2, c)
      o4 == SetProp(o3, "name", tag)
  IN IF props.given THEN ObjectAssign(o4, props.map) ELSE o4

\* mutant: super() is called without the tag
NewInstanceNoMessage(c, props, baseProto) ==
  LET tag == TagOf(c)
      o1 == ErrorCtor("", baseProto)
      o2 == DefineField(o1, "_tag", tag)
      o3 == SetPrototypeOf(o2, c)
      o4 == IF props.given THEN ObjectAssign(o3, props.map) ELSE o3
  IN SetProp(o4, "name", tag)

\* mutant: the props object itself is kept as a field
NewInstanceKeepProps(c, props, baseProto) ==
  LET tag == TagOf(c)
      o1 == ErrorCtor(tag, baseProto)
      o2 == DefineField(o1, "_tag", tag)
      o3 == SetPrototypeOf(o2, c)
      o4 == IF props.given THEN ObjectAssign(o3, props.map) ELSE o3
  IN SetProp(SetProp(o4, "props", Undefined), "name", tag)

\* new C(props) with new.target = class c: the constructor body.
NewInstance(c, props, baseProto) ==
  LET tag == TagOf(c)
      o1 == ErrorCtor(tag, baseProto)
      o2 == DefineField(o1, "_tag", tag)
      o3 == SetPrototypeOf(o2, c)
      o4 == IF props.given THEN ObjectAssign(o3, props.map) ELSE o3
  IN SetProp(o4, "name", tag)

\* ------------------------------------------------------------- state
\* result is what the last operation handed back to its caller: the
\* operation, whether it returned or threw, the class or instance it
\* yielded, and its string argument.
Returned(op, ref, arg) == [op |-> op, status |-> "return", ref |-> ref, arg |-> arg]

Threw(op, arg) == [op |-> op, status |-> "throw", ref |-> 0, arg |-> arg]

Init ==
  /\ classes = <<>>
  /\ instances = <<>>
  /\ result = Returned("none", 0, "")

\* mutant: one class per tag, kept in a registry
TaggedErrorCached(tag) ==
  /\ Len(classes) + Len(instances) < MaxHeap
  /\ IF \E c \in ClassIds : classes[c].parent = ErrorProto /\ classes[c].tag = tag
       THEN /\ classes' = classes
            /\ result' = Returned("TaggedError",
                 CHOOSE c \in ClassIds : classes[c].parent = ErrorProto /\ classes[c].tag = tag,
                 tag)
       ELSE /\ classes' = Append(classes, [tag |-> tag, parent |-> ErrorProto])
            /\ result' = Returned("TaggedError", Len(classes) + 1, tag)
  /\ UNCHANGED instances

\* mutant: an empty tag is rejected at the call
TaggedErrorValidated(tag) ==
  /\ Len(classes) + Len(instances) < MaxHeap
  /\ IF tag = ""
       THEN /\ classes' = classes
            /\ result' = Threw("TaggedError", tag)
       ELSE /\ classes' = Append(classes, [tag |-> tag, parent |-> ErrorProto])
            /\ result' = Returned("TaggedError", Len(classes) + 1, tag)
  /\ UNCHANGED instances

\* TaggedError(tag): a fresh class extending Error that closes over tag.
TaggedError(tag) ==
  /\ Len(classes) + Len(instances) < MaxHeap
  /\ classes' = Append(classes, [tag |-> tag, parent |-> ErrorProto])
  /\ result' = Returned("TaggedError", Len(classes) + 1, tag)
  /\ UNCHANGED instances

\* class X extends C {}: a subclass declared from class c.
Extends(c) ==
  /\ Len(classes) + Len(instances) < MaxHeap
  /\ classes' = Append(classes, [tag |-> TagOf(c), parent |-> c])
  /\ result' = Returned("extends", Len(classes) + 1, TagOf(c))
  /\ UNCHANGED instances

\* What the instance table keeps of a constructed object, with the class
\* and the props it was constructed with.
Stored(o, c, props) ==
  [proto |-> o.proto, own |-> o.own, tagSets |-> o.tagSets, ctor |-> c, props |-> props]

\* mutant: the fields land on every instance of the class as well
ConstructShared(c, props, baseProto) ==
  /\ Len(classes) + Len(instances) < MaxHeap
  /\ LET o == NewInstance(c, props, baseProto)
     IN /\ instances' = Append(
               [i \in InstanceIds |->
                  IF instances[i].ctor = c
                    THEN [instances[i] EXCEPT !.own = o.own]
                    ELSE instances[i]],
               Stored(o, c, props))
        /\ result' = Returned("new", Len(instances) + 1, TagOf(c))
  /\ UNCHANGED classes

\* new C(props): allocates one instance, or propagates the throw.
Construct(c, props, baseProto) ==
  /\ Len(classes) + Len(instances) < MaxHeap
  /\ LET o == NewInstance(c, props, baseProto)
     IN IF o.abrupt
          THEN /\ instances' = instances
               /\ result' = Threw("new", TagOf(c))
          ELSE /\ instances' = Append(instances, Stored(o, c, props))
               /\ result' = Returned("new", Len(instances) + 1, TagOf(c))
  /\ UNCHANGED classes

\* try { throw e } catch (error) { ... }: the handler receives e itself.
ThrowCatch(i) ==
  /\ result' = Returned("catch", i, "")
  /\ UNCHANGED <<classes, instances>>

\* error._tag = v, after construction.
AssignTag(i, v) ==
  /\ LET o == SetProp([proto |-> instances[i].proto, own |-> instances[i].own,
                       tagSets |-> instances[i].tagSets, abrupt |-> FALSE], "_tag", v)
     IN IF o.abrupt
          THEN /\ instances' = instances
               /\ result' = Threw("assign", v)
          ELSE /\ instances' = [instances EXCEPT ![i].own = o.own]
               /\ result' = Returned("assign", i, v)
  /\ UNCHANGED classes

Next ==
  \/ \E tag \in Tags : TaggedError(tag)
  \/ \E c \in ClassIds : Extends(c)
  \/ \E c \in ClassIds, props \in PropsArgs :
       \E baseProto \in {ErrorProto, c} : Construct(c, props, baseProto)
  \/ \E i \in InstanceIds : ThrowCatch(i)
  \/ \E i \in InstanceIds, v \in AssignValues : AssignTag(i, v)

Spec == Init /\ [][Next]_vars

\* ------------------------------------------------------------- claims
\* The instance a construction has just returned.
Fresh(i) == result.op = "new" /\ result.status = "return" /\ result.ref = i

DefaultKeys == {"_tag", "name", "message", "stack"}

\* C1: for every non-empty tag T, the instance constructed with no
\* properties from the class TaggedError(T) returned, or from a subclass of
\* it, has _tag = T, name = T, message = T and is an Error.
C1_NoPropsDefaults ==
  \A i \in InstanceIds :
    (Fresh(i) /\ ~instances[i].props.given /\ TagOf(instances[i].ctor) # "") =>
      /\ Get(instances[i], "_tag") = TagOf(instances[i].ctor)
      /\ Get(instances[i], "name") = TagOf(instances[i].ctor)
      /\ Get(instances[i], "message") = TagOf(instances[i].ctor)
      /\ IsError(instances[i])

C1_Witness ==
  \E i \in InstanceIds :
    /\ Fresh(i) /\ ~instances[i].props.given
    /\ classes[instances[i].ctor].parent # ErrorProto
    /\ TagOf(instances[i].ctor) = "A"
    /\ Get(instances[i], "message") = "A"

\* C2: every instance, with or without properties and also once thrown
\* and caught, is an instance of the class it was constructed with and of
\* Error, and of no class whose tag differs from its class's tag.
C2_InstanceOfExactClass ==
  \A i \in InstanceIds :
    /\ InstanceOf(instances[i], instances[i].ctor)
    /\ IsError(instances[i])
    /\ \A c \in ClassIds :
         TagOf(c) # TagOf(instances[i].ctor) => ~InstanceOf(instances[i], c)

C2_Witness ==
  /\ result.op = "catch"
  /\ instances[result.ref].props.given
  /\ InstanceOf(instances[result.ref], instances[result.ref].ctor)
  /\ \E c \in ClassIds :
       /\ TagOf(c) # TagOf(instances[result.ref].ctor)
       /\ TagOf(c) # ""
       /\ TagOf(instances[result.ref].ctor) # ""
       /\ ~InstanceOf(instances[result.ref], c)

\* C3 as stated: the instance constructed with property map P has every
\* key of P as an own field holding P's value, the reserved names included.
C3_Original ==
  \A i \in InstanceIds :
    (Fresh(i) /\ instances[i].props.given) =>
      \A k \in DOMAIN instances[i].props.map :
        /\ k \in OwnKeys(instances[i])
        /\ instances[i].own[k].value = instances[i].props.map[k]

\* C3 as amended: the instance constructed with property map P has every
\* key of P as an own field; every key but name holds P's value (for _tag,
\* message and stack it replaces the reserved field), and name holds the tag.
C3_Amended ==
  \A i \in InstanceIds :
    (Fresh(i) /\ instances[i].props.given) =>
      \A k \in DOMAIN instances[i].props.map :
        /\ k \in OwnKeys(instances[i])
        /\ instances[i].own[k].value =
             IF k = "name" THEN TagOf(instances[i].ctor) ELSE instances[i].props.map[k]

C3_Witness ==
  \E i \in InstanceIds :
    /\ Fresh(i)
    /\ instances[i].props.given
    /\ DOMAIN instances[i].props.map = PropKeys
    /\ Get(instances[i], "_tag") = PropValue["_tag"]
    /\ Get(instances[i], "message") = PropValue["message"]
    /\ Get(instances[i], "stack") = PropValue["stack"]
    /\ Get(instances[i], "code") = PropValue["code"]
    /\ Get(instances[i], "name") = TagOf(instances[i].ctor)

\* C4 as stated: for every instance of a class from TaggedError(T), T not
\* empty, whatever the properties, _tag is set exactly once during
\* construction, equals T at the end of construction and is not empty.
C4_Original ==
  \A i \in InstanceIds :
    (Fresh(i) /\ TagOf(instances[i].ctor) # "") =>
      /\ instances[i].tagSets = 1
      /\ Get(instances[i], "_tag") = TagOf(instances[i].ctor)
      /\ Get(instances[i], "_tag") # ""

\* C5: for every property map P, also one with a key name, the name of
\* the constructed instance is the tag.
C5_NameIsTag ==
  \A i \in InstanceIds :
    Fresh(i) =>
      /\ "name" \in OwnKeys(instances[i])
      /\ Get(instances[i], "name") = TagOf(instances[i].ctor)

C5_Witness ==
  \E i \in InstanceIds :
    /\ Fresh(i)
    /\ instances[i].props.given
    /\ "name" \in DOMAIN instances[i].props.map
    /\ instances[i].props.map["name"] # TagOf(instances[i].ctor)
    /\ Get(instances[i], "name") = TagOf(instances[i].ctor)

\* Two classes returned by two TaggedError calls with one tag.
SameTagPair(c1, c2) ==
  /\ c1 # c2
  /\ classes[c1].parent = ErrorProto
  /\ classes[c2].parent = ErrorProto
  /\ classes[c1].tag = classes[c2].tag

SameTagExclusive ==
  \A c1 \in ClassIds, c2 \in ClassIds :
    SameTagPair(c1, c2) =>
      \A i \in InstanceIds :
        InstanceOf(instances[i], c1) => ~InstanceOf(instances[i], c2)

\* C6: every TaggedError call returns a class that did not exist before
\* the call, so two calls with one tag return two classes; and an instance
\* of one of two such classes is not an instance of the other.
C6_SameTagDistinct ==
  [][/\ (result'.op = "TaggedError" /\ result'.status = "return") =>
          (result'.ref \notin ClassIds /\ result'.ref \in 1..Len(classes'))
     /\ SameTagExclusive']_vars

C6_Witness ==
  \E c1 \in ClassIds, c2 \in ClassIds :
    /\ SameTagPair(c1, c2)
    /\ result.op = "new"
    /\ \E i \in InstanceIds :
         /\ Fresh(i)
         /\ instances[i].ctor = c1
         /\ InstanceOf(instances[i], c1)
         /\ ~InstanceOf(instances[i], c2)
         /\ Get(instances[i], "_tag") = classes[c2].tag

\* C7: constructing with no properties never fails, and the own fields of
\* the instance are exactly _tag, name, message and stack.
C7_NoPropsOwnFields ==
  /\ result.op = "new" => result.status = "return"
  /\ \A i \in InstanceIds :
       (Fresh(i) /\ ~instances[i].props.given) => OwnKeys(instances[i]) = DefaultKeys

C7_Witness ==
  \E i \in InstanceIds :
    /\ Fresh(i)
    /\ ~instances[i].props.given
    /\ OwnKeys(instances[i]) = DefaultKeys

\* C8 as stated: a TaggedError call with the empty tag throws at the call,
\* so no class exists whose instances would carry an empty _tag.
C8_Original ==
  /\ (result.op = "TaggedError" /\ result.arg = "") => result.status = "throw"
  /\ \A c \in ClassIds : TagOf(c) # ""

\* C8 as amended: a TaggedError call with the empty tag returns a class as
\* for any other tag, constructing from that class does not fail either,
\* and the instance carries the empty _tag, name and message unless the
\* properties replace them.
C8_Amended ==
  /\ (result.op = "TaggedError" /\ result.arg = "") =>
       /\ result.status = "return"
       /\ result.ref = Len(classes)
       /\ classes[result.ref] = [tag |-> "", parent |-> ErrorProto]
  /\ (result.op = "new" /\ result.arg = "") => result.status = "return"
  /\ \A i \in InstanceIds :
       (Fresh(i) /\ TagOf(instances[i].ctor) = "") =>
         /\ "_tag" \in DOMAIN instances[i].props.map \/ Get(instances[i], "_tag") = ""
         /\ "message" \in DOMAIN instances[i].props.map \/ Get(instances[i], "message") = ""
         /\ Get(instances[i], "name") = ""

C8_Witness ==
  \E i \in InstanceIds :
    /\ Fresh(i)
    /\ classes[instances[i].ctor] = [tag |-> "", parent |-> ErrorProto]
    /\ Get(instances[i], "_tag") = ""

\* C9: on every instance _tag is an own, writable field, and an assignment
\* to it after construction succeeds and is read back.
C9_TagWritable ==
  /\ \A i \in InstanceIds :
       "_tag" \in OwnKeys(instances[i]) /\ instances[i].own["_tag"].writable
  /\ result.op = "assign" =>
       /\ result.status = "return"
       /\ Get(instances[result.ref], "_tag") = result.arg

C9_Witness ==
  /\ result.op = "assign"
  /\ result.status = "return"
  /\ Get(instances[result.ref], "_tag") = "v"
  /\ TagOf(instances[result.ref].ctor) = "A"
  /\ ~instances[result.ref].props.given

\* C10: a TaggedError call or a construction adds exactly one class or
\* one instance and leaves every existing class, every existing instance
\* and every existing instance-of relation as it was.
C10_Frame ==
  [][(result'.op \in {"TaggedError", "new"} /\ result'.status = "return") =>
       /\ \A c \in ClassIds : c \in 1..Len(classes') /\ classes'[c] = classes[c]
       /\ \A i \in InstanceIds : i \in 1..Len(instances') /\ instances'[i] = instances[i]
       /\ \A i \in InstanceIds, c \in ClassIds :
            (InstanceOf(instances[i], c))' <=> InstanceOf(instances[i], c)
       /\ \/ Len(classes') = Len(classes) + 1 /\ Len(instances') = Len(instances)
          \/ Len(classes') = Len(classes) /\ Len(instances') = Len(instances) + 1]_vars

C10_Witness ==
  /\ result.op = "new"
  /\ Len(instances) = 2
  /\ instances[1].ctor = instances[2].ctor
  /\ instances[1].props # instances[2].props
  /\ instances[1].own # instances[2].own

====
